---- MODULE Spec2Model ----
(***************************************************************************)
(* Model of the Conventional Commit Helper extension:                      *)
(*   SchemaManager  (src/src/schemaManager.ts)  catalog resolution         *)
(*   CommitBuilder  (src/src/commitBuilder.ts)  commit message formatting  *)
(* JavaScript values are records tagged with their kind; strings that the  *)
(* formatter works on are sequences of one-character strings.              *)
(***************************************************************************)
EXTENDS Integers, Sequences, FiniteSets, TLC

VARIABLES
    workspaceFolders,  \* vscode.workspace.workspaceFolders
    fs,                \* the file system: path -> file
    lastLoad,          \* the SchemaManager.loadSchema call that has just returned, made
                       \* against the current workspace and files
    validateArg,       \* argument of a SchemaManager.validateSchema call
    validateRet,       \* its outcome
    formData,          \* argument of a CommitBuilder.buildCommitMessage call
    commitMessage,     \* its outcome
    prevRet,           \* what the call of loadSchema before lastLoad returned
    panelLive,         \* the handler's WebviewPanel is not disposed
    provider,          \* the WebviewProvider's panel and messageHandler fields are set
    disposeCalls,      \* the calls of WebviewProvider.dispose that the last disposal made
    message,           \* the message handed to MessageHandler.handleMessage
    handled,           \* what handling it did: messages posted, lines logged, calls made
    typeOptions,       \* webview: the values of the options of the type dropdown
    errorDiv,          \* webview: the error box is shown
    resultDiv,         \* webview: the result box, with the copy button, is shown
    copyFeedback,      \* webview: the copy feedback is shown
    timers,            \* webview: the pending setTimeout callbacks
    sinceCopy,         \* seconds since the last successful click on the copy button
    lastSubmit         \* webview: what the submit listener read when it last ran

vars ==
    <<workspaceFolders, fs, lastLoad, prevRet, validateArg, validateRet, formData, commitMessage,
      panelLive, provider, disposeCalls, message, handled,
      typeOptions, errorDiv, resultDiv, copyFeedback, timers, sinceCopy, lastSubmit>>

schemaVars == <<workspaceFolders, fs, lastLoad, prevRet>>
validateVars == <<validateArg, validateRet>>
builderVars == <<formData, commitMessage>>
handlerVars == <<panelLive, provider, disposeCalls, message, handled>>
webviewVars == <<typeOptions, errorDiv, resultDiv, copyFeedback, timers, sinceCopy, lastSubmit>>

----------------------------------------------------------------------------
(* Bounds of the model *)

\* longest `types` array among the validateSchema arguments
MaxTypes == 2
\* total number of characters over the four form fields
MaxChars == 5
\* total number of characters over the four fields of a submitForm message
MaxFormChars == 4

----------------------------------------------------------------------------
(* JavaScript values *)

Undefined == [t |-> "undefined", s |-> "undefined"]
Null == [t |-> "null", s |-> "null"]
Num(n) == [t |-> "number", s |-> n]
Str(x) == [t |-> "string", s |-> x]
\* a string given by its characters, for the strings the formatter works on
Text(cs) == [t |-> "string", cs |-> cs]
IsText(v) == v.t = "string" /\ "cs" \in DOMAIN v
Arr(items) == [t |-> "array", items |-> items]
Obj(props) == [t |-> "object", props |-> props]

\* the typeof operator
Typeof(v) == IF v.t \in {"null", "array", "object"} THEN "object" ELSE v.t

\* ToBoolean, as applied by `!v` and `if (v)`
Truthy(v) ==
    ~ \/ v.t \in {"undefined", "null"}
      \/ v.t = "number" /\ v.s \in {"0", "NaN"}
      \/ v.t = "string" /\ (IF "cs" \in DOMAIN v THEN Len(v.cs) = 0 ELSE v.s = "")
      \/ v.t = "boolean" /\ v.s = "false"

IsArray(v) == v.t = "array"

\* v.k raises a TypeError on null and undefined
GetThrows(v) == v.t \in {"undefined", "null"}

\* v.k for k one of types, id, label: undefined unless v is a plain object holding k
Get(v, k) == IF v.t = "object" /\ k \in DOMAIN v.props THEN v.props[k] ELSE Undefined

\* an object literal { id, label }; an undefined member is left out
MkType(id, label) ==
    Obj([k \in {x \in {"id", "label"} : (IF x = "id" THEN id ELSE label) # Undefined}
            |-> IF k = "id" THEN id ELSE label])

\* an object literal { types }
MkSchema(types) ==
    Obj([k \in {x \in {"types"} : types # Undefined} |-> types])

----------------------------------------------------------------------------
(* SchemaManager.validateSchema *)

\* validateType without the `!type` guard: typeof null is "object"
validateTypeNoNullGuard(type) ==
    IF Typeof(type) # "object" THEN "false"
    ELSE IF GetThrows(type) THEN "TypeError"
    ELSE IF ~Truthy(Get(type, "id")) \/ Typeof(Get(type, "id")) # "string" THEN "false"
    ELSE IF ~Truthy(Get(type, "label")) \/ Typeof(Get(type, "label")) # "string" THEN "false"
    ELSE "ok"

\* the body of the for loop, for one element: "ok", "false" or "TypeError"
validateType(type) ==
    IF ~Truthy(type) \/ Typeof(type) # "object" THEN "false"
    ELSE IF GetThrows(type) THEN "TypeError"
    ELSE IF ~Truthy(Get(type, "id")) \/ Typeof(Get(type, "id")) # "string" THEN "false"
    ELSE IF ~Truthy(Get(type, "label")) \/ Typeof(Get(type, "label")) # "string" THEN "false"
    ELSE "ok"

\* the for loop over schemaObj.types: the outcome of the first element that is not "ok"
RECURSIVE validateTypes(_, _)
validateTypes(items, i) ==
    IF i > Len(items) THEN "true"
    ELSE IF validateType(items[i]) # "ok" THEN validateType(items[i])
    ELSE validateTypes(items, i + 1)

\* "true", "false", or "TypeError" when the call raises
validateSchema(schema) ==
    IF ~Truthy(schema) \/ Typeof(schema) # "object" THEN "false"
    ELSE IF GetThrows(schema) THEN "TypeError"
    ELSE IF ~IsArray(Get(schema, "types")) THEN "false"
    ELSE validateTypes(Get(schema, "types").items, 1)

----------------------------------------------------------------------------
(* Arguments of validateSchema *)

PropValues == {Undefined, Null, Num("1"), Str(""), Str("fix")}

TypeValues ==
    {MkType(id, label) : id \in PropValues, label \in PropValues}
        \cup {Null, Str("feat"), Arr(<<>>)}

TypesValues ==
    {Undefined, Null, Str("feat"), MkType(Str("fix"), Str("Fix"))}
        \cup {Arr(items) : items \in UNION {[1..n -> TypeValues] : n \in 0..MaxTypes}}

SchemaValues ==
    {Undefined, Null, Num("0"), Str("feat"), Arr(<<>>)}
        \cup {MkSchema(types) : types \in TypesValues}

InitValidate ==
    /\ validateArg \in SchemaValues
    /\ validateRet = "none"

\* one call validateSchema(validateArg)
Validate ==
    /\ validateRet = "none"
    /\ validateRet' = validateSchema(validateArg)
    /\ UNCHANGED <<validateArg, schemaVars, builderVars, handlerVars, webviewVars>>

----------------------------------------------------------------------------
(* The file system and the workspace, as SchemaManager.loadSchema sees them *)

Folders == {"/ws/a", "/ws/b"}
extensionPath == "/ext"

\* path.join(workspacePath, '.vscode', 'commit-types.json')
WorkspaceSchemaPath(workspacePath) == workspacePath \o "/.vscode/commit-types.json"
\* path.join(this.context.extensionPath, 'resources', 'commit-types.json')
extensionSchemaPath == extensionPath \o "/resources/commit-types.json"

Paths == {WorkspaceSchemaPath(f) : f \in Folders} \cup {extensionSchemaPath}

\* a path with no file; a file that exists and whose read fails (EACCES, EISDIR);
\* a readable file with its text
Absent == [exists |-> FALSE, readable |-> FALSE, text |-> ""]
Unreadable == [exists |-> TRUE, readable |-> FALSE, text |-> ""]
File(text) == [exists |-> TRUE, readable |-> TRUE, text |-> text]

TextMalformed == "{ \"types\": [ "
TextNull == "null"
TextTypesString == "{ \"types\": \"feat\" }"
TextEmptyId == "{ \"types\": [ { \"id\": \"\", \"label\": \"Bug\" } ] }"
TextNoTypes == "{ \"types\": [] }"
TextHotfix == "{ \"types\": [ { \"id\": \"hotfix\", \"label\": \"Hotfix\" } ] }"
TextFixFeat == "{ \"types\": [ { \"id\": \"fix\", \"label\": \"Fix\" }, { \"id\": \"feat\", \"label\": \"Feat\" } ] }"
TextOddIds == "{ \"types\": [ { \"id\": \"B\", \"label\": \"Big\" }, { \"id\": \" a\", \"label\": \"A\" }, { \"id\": \" \", \"label\": \"Blank\" } ] }"

FileTexts ==
    {TextMalformed, TextNull, TextTypesString, TextEmptyId, TextNoTypes, TextHotfix, TextFixFeat,
     TextOddIds}

\* JSON.parse on the texts above: a SyntaxError, or the value the text denotes
JSONparse(text) ==
    CASE text = TextNull -> [ok |-> TRUE, value |-> Null]
      [] text = TextTypesString -> [ok |-> TRUE, value |-> MkSchema(Str("feat"))]
      [] text = TextEmptyId ->
            [ok |-> TRUE, value |-> MkSchema(Arr(<<MkType(Str(""), Str("Bug"))>>))]
      [] text = TextNoTypes -> [ok |-> TRUE, value |-> MkSchema(Arr(<<>>))]
      [] text = TextHotfix ->
            [ok |-> TRUE, value |-> MkSchema(Arr(<<MkType(Str("hotfix"), Str("Hotfix"))>>))]
      [] text = TextFixFeat ->
            [ok |-> TRUE,
             value |-> MkSchema(Arr(<<MkType(Str("fix"), Str("Fix")),
                                      MkType(Str("feat"), Str("Feat"))>>))]
      [] text = TextOddIds ->
            [ok |-> TRUE,
             value |-> MkSchema(Arr(<<MkType(Str("B"), Str("Big")),
                                      MkType(Str(" a"), Str("A")),
                                      MkType(Str(" "), Str("Blank"))>>))]
      [] OTHER -> [ok |-> FALSE, value |-> Undefined]

\* the workspace: undefined when no folder is open, else the array of folder paths
WorkspaceValues ==
    {Undefined, Arr(<<>>)}
        \cup {Arr(<<f>>) : f \in Folders}
        \cup {Arr(<<f, g>>) : f \in Folders, g \in Folders}

----------------------------------------------------------------------------
(* SchemaManager.getDefaultSchema and SchemaManager.loadSchema *)

\* getDefaultSchema with fix listed before feat
getDefaultSchemaFixFirst ==
    MkSchema(Arr(<<MkType(Str("fix"), Str("Perbaikan Bug")),
                   MkType(Str("feat"), Str("Fitur Baru")),
                   MkType(Str("docs"), Str("Dokumentasi")),
                   MkType(Str("style"), Str("Styling")),
                   MkType(Str("refactor"), Str("Refactoring")),
                   MkType(Str("test"), Str("Testing")),
                   MkType(Str("chore"), Str("Chore"))>>))

\* the labels are written without their emoji
getDefaultSchema ==
    MkSchema(Arr(<<MkType(Str("feat"), Str("Fitur Baru")),
                   MkType(Str("fix"), Str("Perbaikan Bug")),
                   MkType(Str("docs"), Str("Dokumentasi")),
                   MkType(Str("style"), Str("Styling")),
                   MkType(Str("refactor"), Str("Refactoring")),
                   MkType(Str("test"), Str("Testing")),
                   MkType(Str("chore"), Str("Chore"))>>))

LogOp(op, path) == [op |-> op, path |-> path]

\* one candidate, returned as parsed without validateSchema
probeCandidateNoValidate(fsys, path) ==
    IF ~fsys[path].exists
    THEN [kind |-> "next", schema |-> Undefined, log |-> <<LogOp("existsSync", path)>>]
    ELSE LET log == <<LogOp("existsSync", path), LogOp("readFileSync", path)>> IN
         IF ~fsys[path].readable
         THEN [kind |-> "throw", schema |-> Undefined, log |-> log]
         ELSE LET parsed == JSONparse(fsys[path].text) IN
              IF ~parsed.ok
              THEN [kind |-> "throw", schema |-> Undefined, log |-> log]
              ELSE [kind |-> "return", schema |-> parsed.value, log |-> log]

\* one candidate: existsSync, readFileSync, JSON.parse, validateSchema.
\* kind "return": return schema; "next": fall through; "throw": an exception is raised
probeCandidate(fsys, path) ==
    IF ~fsys[path].exists
    THEN [kind |-> "next", schema |-> Undefined, log |-> <<LogOp("existsSync", path)>>]
    ELSE LET log == <<LogOp("existsSync", path), LogOp("readFileSync", path)>> IN
         IF ~fsys[path].readable
         THEN [kind |-> "throw", schema |-> Undefined, log |-> log]
         ELSE LET parsed == JSONparse(fsys[path].text) IN
              IF ~parsed.ok
              THEN [kind |-> "throw", schema |-> Undefined, log |-> log]
              ELSE LET valid == validateSchema(parsed.value) IN
                   IF valid = "TypeError"
                   THEN [kind |-> "throw", schema |-> Undefined, log |-> log]
                   ELSE IF valid = "true"
                   THEN [kind |-> "return", schema |-> parsed.value, log |-> log]
                   ELSE [kind |-> "next", schema |-> Undefined, log |-> log]

\* the workspace candidate, probed in the last folder that is open
workspaceCandidateLastFolder(folders, fsys) ==
    IF Truthy(folders) /\ Len(folders.items) > 0
    THEN probeCandidate(fsys, WorkspaceSchemaPath(folders.items[Len(folders.items)]))
    ELSE [kind |-> "next", schema |-> Undefined, log |-> <<>>]

\* the workspace candidate: probed only when a folder is open, in the first folder
workspaceCandidate(folders, fsys) ==
    IF Truthy(folders) /\ Len(folders.items) > 0
    THEN probeCandidate(fsys, WorkspaceSchemaPath(folders.items[1]))
    ELSE [kind |-> "next", schema |-> Undefined, log |-> <<>>]

\* the try block, probing the extension's file before looking at the workspace's result
loadSchemaTryProbeBoth(folders, fsys) ==
    LET ws == workspaceCandidate(folders, fsys)
        ext == probeCandidate(fsys, extensionSchemaPath)
    IN  IF ws.kind # "next"
        THEN [kind |-> ws.kind, schema |-> ws.schema, log |-> ws.log \o ext.log]
        ELSE [kind |-> ext.kind, schema |-> ext.schema, log |-> ws.log \o ext.log]

\* the try block, giving up after a workspace file that was read and rejected
loadSchemaTryNoFallThrough(folders, fsys) ==
    LET ws == workspaceCandidate(folders, fsys) IN
    IF ws.kind # "next" \/ Len(ws.log) > 1 THEN ws
    ELSE LET ext == probeCandidate(fsys, extensionSchemaPath) IN
         [kind |-> ext.kind, schema |-> ext.schema, log |-> ws.log \o ext.log]

\* the try block
loadSchemaTry(folders, fsys) ==
    LET ws == workspaceCandidate(folders, fsys) IN
    IF ws.kind # "next" THEN ws
    ELSE LET ext == probeCandidate(fsys, extensionSchemaPath) IN
         [kind |-> ext.kind, schema |-> ext.schema, log |-> ws.log \o ext.log]

\* the call without its catch block: what the try block raises reaches the caller
loadSchemaNoCatch(folders, fsys) ==
    LET try == loadSchemaTry(folders, fsys) IN
    IF try.kind = "return"
    THEN [called |-> TRUE, threw |-> FALSE, caught |-> FALSE, builtDefault |-> FALSE,
          ret |-> try.schema, log |-> try.log]
    ELSE IF try.kind = "throw"
    THEN [called |-> TRUE, threw |-> TRUE, caught |-> FALSE, builtDefault |-> FALSE,
          ret |-> Undefined, log |-> try.log]
    ELSE [called |-> TRUE, threw |-> FALSE, caught |-> FALSE,
          builtDefault |-> TRUE, ret |-> getDefaultSchema, log |-> try.log]

\* the whole call: the catch block swallows what the try block raises, and every
\* path that does not return a candidate's catalog ends in getDefaultSchema()
loadSchema(folders, fsys) ==
    LET try == loadSchemaTry(folders, fsys) IN
    IF try.kind = "return"
    THEN [called |-> TRUE, threw |-> FALSE, caught |-> FALSE, builtDefault |-> FALSE,
          ret |-> try.schema, log |-> try.log]
    ELSE [called |-> TRUE, threw |-> FALSE, caught |-> try.kind = "throw",
          builtDefault |-> TRUE, ret |-> getDefaultSchema, log |-> try.log]

NotLoaded ==
    [called |-> FALSE, threw |-> FALSE, caught |-> FALSE, builtDefault |-> FALSE,
     ret |-> Undefined, log |-> <<>>]

InitSchema ==
    /\ workspaceFolders = Undefined
    /\ fs = [p \in Paths |-> Absent]
    /\ lastLoad = NotLoaded
    /\ prevRet = Undefined

\* any folders and any files, before the first call
InitSchemaAny ==
    /\ workspaceFolders \in WorkspaceValues
    /\ fs \in [Paths -> {Absent, Unreadable} \cup {File(text) : text \in FileTexts}]
    /\ lastLoad = NotLoaded
    /\ prevRet = Undefined

\* what the most recent call returned, undefined before the first call
EarlierRet == IF lastLoad.called THEN lastLoad.ret ELSE prevRet

\* a call that keeps what the call before it returned
loadSchemaCallCached(earlier, folders, fsys) ==
    IF earlier # Undefined
    THEN [called |-> TRUE, threw |-> FALSE, caught |-> FALSE, builtDefault |-> FALSE,
          ret |-> earlier, log |-> <<>>]
    ELSE loadSchema(folders, fsys)

\* a call made after a call that returned earlier: the manager has no field that
\* holds a catalog, and loadSchema reads none
loadSchemaCall(earlier, folders, fsys) == loadSchema(folders, fsys)

\* a call of schemaManager.loadSchema()
LoadSchema ==
    /\ lastLoad' = loadSchemaCall(EarlierRet, workspaceFolders, fs)
    /\ prevRet' = EarlierRet
    /\ UNCHANGED <<workspaceFolders, fs, validateVars, builderVars, handlerVars, webviewVars>>

\* the environment: files are written, removed and protected, folders opened and
\* closed; the call that returned before the change no longer describes the files
WriteFile ==
    \E p \in Paths, text \in FileTexts :
        /\ fs' = [fs EXCEPT ![p] = File(text)]
        /\ lastLoad' = NotLoaded
        /\ prevRet' = EarlierRet
        /\ UNCHANGED <<workspaceFolders, validateVars, builderVars, handlerVars, webviewVars>>

RemoveFile ==
    \E p \in Paths :
        /\ fs' = [fs EXCEPT ![p] = Absent]
        /\ lastLoad' = NotLoaded
        /\ prevRet' = EarlierRet
        /\ UNCHANGED <<workspaceFolders, validateVars, builderVars, handlerVars, webviewVars>>

ProtectFile ==
    \E p \in Paths :
        /\ fs' = [fs EXCEPT ![p] = Unreadable]
        /\ lastLoad' = NotLoaded
        /\ prevRet' = EarlierRet
        /\ UNCHANGED <<workspaceFolders, validateVars, builderVars, handlerVars, webviewVars>>

ChangeWorkspaceFolders ==
    \E w \in WorkspaceValues :
        /\ workspaceFolders' = w
        /\ lastLoad' = NotLoaded
        /\ prevRet' = EarlierRet
        /\ UNCHANGED <<fs, validateVars, builderVars, handlerVars, webviewVars>>

----------------------------------------------------------------------------
(* CommitBuilder *)

Chars == {"a", "B", " ", "\n"}

\* the strings of at most n characters
Strings(n) == UNION {[1..k -> Chars] : k \in 0..n}

\* white space, as String.prototype.trim sees it
IsWhitespace(c) == c \in {" ", "\t", "\n", "\r"}

RECURSIVE trimStart(_)
trimStart(s) ==
    IF Len(s) > 0 /\ IsWhitespace(s[1]) THEN trimStart(SubSeq(s, 2, Len(s))) ELSE s

RECURSIVE trimEnd(_)
trimEnd(s) ==
    IF Len(s) > 0 /\ IsWhitespace(s[Len(s)]) THEN trimEnd(SubSeq(s, 1, Len(s) - 1)) ELSE s

\* String.prototype.trim
trim(s) == trimEnd(trimStart(s))

toLowerChar(c) ==
    CASE c = "A" -> "a"
      [] c = "B" -> "b"
      [] OTHER -> c

\* String.prototype.toLowerCase
RECURSIVE toLowerCase(_)
toLowerCase(s) ==
    IF Len(s) = 0 THEN <<>> ELSE <<toLowerChar(s[1])>> \o toLowerCase(SubSeq(s, 2, Len(s)))

\* formatHeader without trim() on the type
formatHeaderNoTrimType(type, scope, subject) ==
    LET cleanType == toLowerCase(type)
        cleanScope == trim(scope)
        cleanSubject == trim(subject)
    IN  IF Len(cleanScope) > 0
        THEN cleanType \o <<"(">> \o cleanScope \o <<")", ":", " ">> \o cleanSubject
        ELSE cleanType \o <<":", " ">> \o cleanSubject

\* formatHeader without toLowerCase()
formatHeaderNoLowerCase(type, scope, subject) ==
    LET cleanType == trim(type)
        cleanScope == trim(scope)
        cleanSubject == trim(subject)
    IN  IF Len(cleanScope) > 0
        THEN cleanType \o <<"(">> \o cleanScope \o <<")", ":", " ">> \o cleanSubject
        ELSE cleanType \o <<":", " ">> \o cleanSubject

\* formatHeader lower-casing the scope as it does the type
formatHeaderLowerScope(type, scope, subject) ==
    LET cleanType == toLowerCase(trim(type))
        cleanScope == toLowerCase(trim(scope))
        cleanSubject == trim(subject)
    IN  IF Len(cleanScope) > 0
        THEN cleanType \o <<"(">> \o cleanScope \o <<")", ":", " ">> \o cleanSubject
        ELSE cleanType \o <<":", " ">> \o cleanSubject

\* formatHeader cutting the subject at the advised length
formatHeaderTruncate(type, scope, subject) ==
    LET cleanType == toLowerCase(trim(type))
        cleanScope == trim(scope)
        cleanSubject == SubSeq(trim(subject), 1,
                               IF Len(trim(subject)) > 72 THEN 72 ELSE Len(trim(subject)))
    IN  IF Len(cleanScope) > 0
        THEN cleanType \o <<"(">> \o cleanScope \o <<")", ":", " ">> \o cleanSubject
        ELSE cleanType \o <<":", " ">> \o cleanSubject

formatHeader(type, scope, subject) ==
    LET cleanType == toLowerCase(trim(type))
        cleanScope == trim(scope)
        cleanSubject == trim(subject)
    IN  IF Len(cleanScope) > 0
        THEN cleanType \o <<"(">> \o cleanScope \o <<")", ":", " ">> \o cleanSubject
        ELSE cleanType \o <<":", " ">> \o cleanSubject

\* formatBody without trim()
formatBodyNoTrim(body) == body

formatBody(body) == trim(body)

\* buildCommitMessage with the body on the line right after the header
buildCommitMessageOneNewline(data) ==
    LET header == formatHeader(data.type, data.scope, data.subject) IN
    IF Len(data.body) > 0 /\ Len(trim(data.body)) > 0
    THEN header \o <<"\n">> \o formatBody(data.body)
    ELSE header

\* buildCommitMessage testing `formData.body` alone, without `formData.body.trim()`
buildCommitMessageNoTrimTest(data) ==
    LET header == formatHeader(data.type, data.scope, data.subject) IN
    IF Len(data.body) > 0
    THEN header \o <<"\n", "\n">> \o formatBody(data.body)
    ELSE header

buildCommitMessage(data) ==
    LET header == formatHeader(data.type, data.scope, data.subject) IN
    IF Len(data.body) > 0 /\ Len(trim(data.body)) > 0
    THEN header \o <<"\n", "\n">> \o formatBody(data.body)
    ELSE header

\* the object { type, scope, subject, body } of four strings
FormObject(data) ==
    Obj([k \in {"type", "scope", "subject", "body"} |-> Text(data[k])])

\* the call with a check of its own: an Error for a type that is blank
buildCommitMessageCallRejectBlank(data) ==
    IF \/ ~IsText(Get(data, "type")) \/ ~IsText(Get(data, "scope"))
       \/ ~IsText(Get(data, "subject"))
       \/ Truthy(Get(data, "body")) /\ ~IsText(Get(data, "body"))
       \/ Len(trim(Get(data, "type").cs)) = 0
    THEN [threw |-> TRUE, ret |-> <<>>]
    ELSE [threw |-> FALSE,
          ret |-> buildCommitMessage(
                    [type |-> Get(data, "type").cs,
                     scope |-> Get(data, "scope").cs,
                     subject |-> Get(data, "subject").cs,
                     body |-> IF IsText(Get(data, "body")) THEN Get(data, "body").cs ELSE <<>>])]

\* buildCommitMessage called on an object as it arrives: type.trim(), scope.trim() and
\* subject.trim() raise a TypeError on a member that is no string, and so does
\* body.trim() on a body that is truthy and no string
buildCommitMessageCall(data) ==
    IF \/ ~IsText(Get(data, "type")) \/ ~IsText(Get(data, "scope"))
       \/ ~IsText(Get(data, "subject"))
       \/ Truthy(Get(data, "body")) /\ ~IsText(Get(data, "body"))
    THEN [threw |-> TRUE, ret |-> <<>>]
    ELSE [threw |-> FALSE,
          ret |-> buildCommitMessage(
                    [type |-> Get(data, "type").cs,
                     scope |-> Get(data, "scope").cs,
                     subject |-> Get(data, "subject").cs,
                     body |-> IF IsText(Get(data, "body")) THEN Get(data, "body").cs ELSE <<>>])]

NotBuilt == [called |-> FALSE, threw |-> FALSE, ret |-> <<>>]

InitBuilder ==
    /\ formData = [type |-> <<>>, scope |-> <<>>, subject |-> <<>>, body |-> <<>>]
    /\ commitMessage = NotBuilt

\* a subject one character longer than the advised length
SubjectAdvisoryLimit == 72
LongSubject == [i \in 1..(SubjectAdvisoryLimit + 1) |-> "a"]

\* strings with parentheses, colons and line breaks, and the long subject
SpecialStrings ==
    {<<"(", "a", ")">>, <<"a", ":", " ", "B">>, <<"a", "\n", "(", ":", "B">>, LongSubject}

SpecialForms ==
    [type : {<<>>, <<"B">>},
     scope : {<<>>} \cup (SpecialStrings \ {LongSubject}),
     subject : SpecialStrings,
     body : {<<>>} \cup SpecialStrings]

\* the four fields, MaxChars characters in all, and the special forms
InitBuilderInputs ==
    /\ \/ formData \in SpecialForms
       \/ \E type \in Strings(MaxChars) :
           \E scope \in Strings(MaxChars - Len(type)) :
            \E subject \in Strings(MaxChars - Len(type) - Len(scope)) :
             \E body \in Strings(MaxChars - Len(type) - Len(scope) - Len(subject)) :
               formData = [type |-> type, scope |-> scope, subject |-> subject, body |-> body]
    /\ commitMessage = NotBuilt

\* one call buildCommitMessage(formData)
Build ==
    /\ ~commitMessage.called
    /\ commitMessage' = [called |-> TRUE,
                         threw |-> buildCommitMessageCall(FormObject(formData)).threw,
                         ret |-> buildCommitMessageCall(FormObject(formData)).ret]
    /\ UNCHANGED <<formData, schemaVars, validateVars, handlerVars, webviewVars>>

----------------------------------------------------------------------------
(* MessageHandler *)

\* what a piece of handler code did
Effects(posted, lines, loads, builds) ==
    [posted |-> posted, lines |-> lines, loads |-> loads, builds |-> builds]
NoEffects == Effects(<<>>, <<>>, <<>>, <<>>)
Then(a, b) ==
    Effects(a.posted \o b.posted, a.lines \o b.lines, a.loads \o b.loads, a.builds \o b.builds)
Line(text) == Effects(<<>>, <<text>>, <<>>, <<>>)

Message(command, data) == [command |-> command, data |-> data]

\* postMessage reaches the webview while the panel is live; on a disposed panel
\* panel.webview raises, which the catch block logs
sendToWebview(live, command, data) ==
    IF live
    THEN Effects(<<Message(command, data)>>, <<"Sent message: " \o command>>, <<>>, <<>>)
    ELSE Line("Error sending message to webview")

handleLoadSchema(live, folders, fsys) ==
    LET call == loadSchema(folders, fsys)
        made == Effects(<<>>, <<>>, <<call>>, <<>>)
    IN  IF call.threw \/ GetThrows(call.ret) \/ GetThrows(Get(call.ret, "types"))
        THEN Then(made, Then(Line("Error loading schema"),
                             sendToWebview(live, "error", Str("Gagal memuat daftar type commit"))))
        ELSE Then(made, Then(Line("Schema loaded"),
                             sendToWebview(live, "schemaData", call.ret)))

\* handleWebviewReady without its call of handleLoadSchema
handleWebviewReadyLogOnly(live, folders, fsys) ==
    Line("Webview ready, loading schema...")

handleWebviewReady(live, folders, fsys) ==
    Then(Line("Webview ready, loading schema..."), handleLoadSchema(live, folders, fsys))

\* the failures of handleSubmitForm
InvalidFormData(live) ==
    Then(Line("Error: Invalid form data"),
         sendToWebview(live, "error", Str("Data form tidak valid")))
TypeRequired(live) ==
    Then(Line("Error: Type is required"),
         sendToWebview(live, "error", Str("Type commit harus diisi")))
SubjectRequired(live) ==
    Then(Line("Error: Subject is required"),
         sendToWebview(live, "error", Str("Subject commit harus diisi")))
SubmitFailed(live) ==
    Then(Line("Error in handleSubmitForm"),
         sendToWebview(live, "error", Str("Gagal membuat commit message")))

\* the build and the commitResult, with nothing answered when the builder raises
buildAndSendNoCatch(live, data) ==
    LET call == buildCommitMessageCall(data)
        made == Then(Line("Building commit message..."), Effects(<<>>, <<>>, <<>>, <<data>>))
    IN  IF call.threw
        THEN made
        ELSE Then(made, Then(Line("Commit message created"),
                             sendToWebview(live, "commitResult", Text(call.ret))))

\* "Building commit message...", the call, and the commitResult or the catch block
buildAndSend(live, data) ==
    LET call == buildCommitMessageCall(data)
        made == Then(Line("Building commit message..."), Effects(<<>>, <<>>, <<>>, <<data>>))
    IN  IF call.threw
        THEN Then(made, SubmitFailed(live))
        ELSE Then(made, Then(Line("Commit message created"),
                             sendToWebview(live, "commitResult", Text(call.ret))))

\* handleSubmitForm testing `!formData.type` and `!formData.subject` without trim()
handleSubmitFormNoTrim(live, data) ==
    IF ~Truthy(data) \/ Typeof(data) # "object" THEN InvalidFormData(live)
    ELSE IF ~Truthy(Get(data, "type")) THEN TypeRequired(live)
    ELSE IF ~Truthy(Get(data, "subject")) THEN SubjectRequired(live)
    ELSE buildAndSend(live, data)

\* handleSubmitForm requiring a scope as it requires a type
handleSubmitFormRequireScope(live, data) ==
    IF ~Truthy(data) \/ Typeof(data) # "object" THEN InvalidFormData(live)
    ELSE IF ~Truthy(Get(data, "type")) THEN TypeRequired(live)
    ELSE IF ~IsText(Get(data, "type")) THEN SubmitFailed(live)
    ELSE IF Len(trim(Get(data, "type").cs)) = 0 THEN TypeRequired(live)
    ELSE IF ~Truthy(Get(data, "scope")) THEN TypeRequired(live)
    ELSE IF ~Truthy(Get(data, "subject")) THEN SubjectRequired(live)
    ELSE IF ~IsText(Get(data, "subject")) THEN SubmitFailed(live)
    ELSE IF Len(trim(Get(data, "subject").cs)) = 0 THEN SubjectRequired(live)
    ELSE buildAndSend(live, data)

\* `!formData.type || !formData.type.trim()`: trim() on a truthy value that is no
\* string raises a TypeError, which the catch block turns into an error message
handleSubmitForm(live, data) ==
    IF ~Truthy(data) \/ Typeof(data) # "object" THEN InvalidFormData(live)
    ELSE IF ~Truthy(Get(data, "type")) THEN TypeRequired(live)
    ELSE IF ~IsText(Get(data, "type")) THEN SubmitFailed(live)
    ELSE IF Len(trim(Get(data, "type").cs)) = 0 THEN TypeRequired(live)
    ELSE IF ~Truthy(Get(data, "subject")) THEN SubjectRequired(live)
    ELSE IF ~IsText(Get(data, "subject")) THEN SubmitFailed(live)
    ELSE IF Len(trim(Get(data, "subject").cs)) = 0 THEN SubjectRequired(live)
    ELSE buildAndSend(live, data)

\* the text of a command in a log line
CommandText(command) == IF command.t \in {"string", "number"} THEN command.s ELSE command.t

\* the switch over message.command
dispatchAnswerUnknown(live, msg, folders, fsys) ==
    LET command == Get(msg, "command") IN
    IF command = Str("webviewReady") THEN handleWebviewReady(live, folders, fsys)
    ELSE IF command = Str("loadSchema") THEN handleLoadSchema(live, folders, fsys)
    ELSE IF command = Str("submitForm") THEN handleSubmitForm(live, Get(msg, "data"))
    ELSE Then(Line("Warning: Unknown command: " \o CommandText(command)),
              sendToWebview(live, "error", Str("Unknown command")))

dispatch(live, msg, folders, fsys) ==
    LET command == Get(msg, "command") IN
    IF command = Str("webviewReady") THEN handleWebviewReady(live, folders, fsys)
    ELSE IF command = Str("loadSchema") THEN handleLoadSchema(live, folders, fsys)
    ELSE IF command = Str("submitForm") THEN handleSubmitForm(live, Get(msg, "data"))
    ELSE Line("Warning: Unknown command: " \o CommandText(command))

handleMessage(live, msg, folders, fsys) ==
    IF ~Truthy(msg) \/ Typeof(msg) # "object" \/ ~Truthy(Get(msg, "command"))
    THEN Then(Line("Error: Invalid message format received"),
              sendToWebview(live, "error", Str("Format message tidak valid")))
    ELSE Then(Line("Received message: " \o CommandText(Get(msg, "command"))),
              dispatch(live, msg, folders, fsys))

Handled(effects) ==
    [done |-> TRUE, dropped |-> FALSE, posted |-> effects.posted, lines |-> effects.lines,
     loads |-> effects.loads, builds |-> effects.builds]
NotHandled ==
    [done |-> FALSE, dropped |-> FALSE,
     posted |-> <<>>, lines |-> <<>>, loads |-> <<>>, builds |-> <<>>]
\* `this.messageHandler?.handleMessage(message)` with no messageHandler
Dropped ==
    [done |-> FALSE, dropped |-> TRUE,
     posted |-> <<>>, lines |-> <<>>, loads |-> <<>>, builds |-> <<>>]

----------------------------------------------------------------------------
(* WebviewProvider *)

\* the provider after createWebview
Created == [panel |-> TRUE, messageHandler |-> TRUE]

\* dispose() and panel.dispose() work on the provider's fields, the panel's
\* disposed flag and the count of the calls of dispose()
RECURSIVE dispose(_)
RECURSIVE panelDispose(_)

\* vscode's WebviewPanel.dispose: nothing on a disposed panel; else the panel is
\* marked disposed and the onDidDispose listener, which calls dispose(), runs
panelDispose(st) ==
    IF ~st.live THEN st ELSE dispose([st EXCEPT !.live = FALSE])

\* dispose() that leaves the messageHandler field set
disposeKeepHandler(st) ==
    LET entered == [st EXCEPT !.calls = @ + 1] IN
    IF entered.panel THEN [panelDispose(entered) EXCEPT !.panel = FALSE] ELSE entered

dispose(st) ==
    LET entered == [st EXCEPT !.calls = @ + 1]
        afterPanel == IF entered.panel
                      THEN [panelDispose(entered) EXCEPT !.panel = FALSE]
                      ELSE entered
    IN  [afterPanel EXCEPT !.messageHandler = FALSE]

\* the fields and the flag before a disposal
Lifecycle ==
    [panel |-> provider.panel, messageHandler |-> provider.messageHandler,
     live |-> panelLive, calls |-> 0]

----------------------------------------------------------------------------
(* Messages handed to handleMessage *)

\* an object literal of the members that are not undefined
MkObject(members) ==
    Obj([k \in {x \in DOMAIN members : members[x] # Undefined} |-> members[k]])

MkForm(type, scope, subject, body) ==
    MkObject([type |-> type, scope |-> scope, subject |-> subject, body |-> body])

MkMessage(command, data) == MkObject([command |-> command, data |-> data])

\* members that are absent, no strings, or short strings
OddMembers == {Undefined, Null, Num("0"), Num("5"), Text(<<>>), Text(<<" ">>), Text(<<"B">>)}

OddForms ==
    {MkForm(type, scope, subject, body) :
        type \in OddMembers, scope \in OddMembers, subject \in OddMembers, body \in OddMembers}

\* data that is no form
OddData == {Undefined, Null, Num("5"), Text(<<"B">>), Arr(<<>>)}

OtherMessages ==
    {Undefined, Null, Str("submitForm"), Arr(<<>>)}
        \cup {MkMessage(command, Undefined) :
                command \in {Undefined, Str(""), Num("5"), Str("webviewReady"), Str("loadSchema"),
                             Str("schemaData"), Str("commitResult"), Str("ping")}}

InitHandler ==
    /\ panelLive = TRUE
    /\ provider = Created
    /\ disposeCalls = 0
    /\ message = Undefined
    /\ handled = NotHandled

\* every message of OtherMessages, every submitForm with data of OddData or OddForms,
\* and every submitForm with a form of four strings, MaxFormChars characters in all
InitHandlerInputs ==
    /\ panelLive = TRUE
    /\ provider = Created
    /\ disposeCalls = 0
    /\ \/ message \in OtherMessages
       \/ \E data \in OddData \cup OddForms : message = MkMessage(Str("submitForm"), data)
       \/ \E type \in Strings(MaxFormChars) :
           \E scope \in Strings(MaxFormChars - Len(type)) :
           \E subject \in Strings(MaxFormChars - Len(type) - Len(scope)) :
           \E body \in Strings(MaxFormChars - Len(type) - Len(scope) - Len(subject)) :
               message = MkMessage(Str("submitForm"),
                                   MkForm(Text(type), Text(scope), Text(subject), Text(body)))
    /\ handled = NotHandled

\* the submit listener of the webview has not run since the last message
NoSubmit == [made |-> FALSE, type |-> <<>>, subject |-> <<>>]

\* the listener of panel.webview.onDidReceiveMessage hands the message to handleMessage
HandleMessage ==
    /\ ~handled.done
    /\ ~handled.dropped
    /\ handled' = IF provider.messageHandler
                  THEN Handled(handleMessage(panelLive, message, workspaceFolders, fs))
                  ELSE Dropped
    /\ lastSubmit' = NoSubmit
    /\ UNCHANGED <<panelLive, provider, disposeCalls, message, schemaVars, validateVars, builderVars,
                   typeOptions, errorDiv, resultDiv, copyFeedback, timers, sinceCopy>>

\* the messages that reach the listener around a disposal
LifecycleMessages ==
    OtherMessages
        \cup {MkMessage(Str("submitForm"), data) : data \in OddData}
        \cup {MkMessage(Str("submitForm"),
                        MkForm(Text(type), Text(<<>>), Text(subject), Text(<<>>))) :
                type \in {<<>>, <<"B">>}, subject \in {<<>>, <<"a">>}}

\* the webview posts a message; it is in flight until the listener takes it
PostMessage ==
    \E m \in LifecycleMessages :
        /\ message' = m
        /\ handled' = NotHandled
        /\ UNCHANGED <<panelLive, provider, disposeCalls,
                       schemaVars, validateVars, builderVars, webviewVars>>

\* the user closes the panel: vscode disposes the panel
ClosePanel ==
    /\ panelLive
    /\ LET st == panelDispose(Lifecycle) IN
        /\ panelLive' = st.live
        /\ provider' = [panel |-> st.panel, messageHandler |-> st.messageHandler]
        /\ disposeCalls' = st.calls
    /\ UNCHANGED <<message, handled, schemaVars, validateVars, builderVars, webviewVars>>

\* a call of WebviewProvider.dispose()
Dispose ==
    /\ LET st == dispose(Lifecycle) IN
        /\ panelLive' = st.live
        /\ provider' = [panel |-> st.panel, messageHandler |-> st.messageHandler]
        /\ disposeCalls' = st.calls
    /\ UNCHANGED <<message, handled, schemaVars, validateVars, builderVars, webviewVars>>

----------------------------------------------------------------------------
(* The webview script *)

\* the characters of the ids that catalogs hold
CharsOf(id) ==
    CASE id = "feat" -> <<"f", "e", "a", "t">>
      [] id = "fix" -> <<"f", "i", "x">>
      [] id = "docs" -> <<"d", "o", "c", "s">>
      [] id = "style" -> <<"s", "t", "y", "l", "e">>
      [] id = "refactor" -> <<"r", "e", "f", "a", "c", "t", "o", "r">>
      [] id = "test" -> <<"t", "e", "s", "t">>
      [] id = "chore" -> <<"c", "h", "o", "r", "e">>
      [] id = "hotfix" -> <<"h", "o", "t", "f", "i", "x">>
      [] id = "B" -> <<"B">>
      [] id = " a" -> <<" ", "a">>
      [] id = " " -> <<" ">>
      [] OTHER -> <<>>

\* seconds until setTimeout(..., 3000) and setTimeout(..., 5000) run their callbacks
FeedbackDelay == 3
ErrorDelay == 5

Timer(hides, left) == [hides |-> hides, left |-> left]

InitWebview ==
    /\ typeOptions = <<Text(<<>>)>>
    /\ errorDiv = FALSE
    /\ resultDiv = FALSE
    /\ copyFeedback = FALSE
    /\ timers = {}
    /\ sinceCopy = FeedbackDelay
    /\ lastSubmit = NoSubmit

\* a commit message is on display
InitWebviewResult ==
    /\ typeOptions = <<Text(<<>>)>>
    /\ errorDiv = FALSE
    /\ resultDiv = TRUE
    /\ copyFeedback = FALSE
    /\ timers = {}
    /\ sinceCopy = FeedbackDelay
    /\ lastSubmit = NoSubmit

\* showError: the box is shown and a callback that hides it is set
showError ==
    /\ errorDiv' = TRUE
    /\ timers' = timers \cup {Timer("errorDiv", ErrorDelay)}

\* option.value = type.id
OptionValue(type) ==
    LET id == Get(type, "id") IN
    IF id.t = "string" /\ "s" \in DOMAIN id THEN Text(CharsOf(id.s)) ELSE Text(<<>>)

handleSchemaData(schema) ==
    IF ~Truthy(schema) \/ ~Truthy(Get(schema, "types")) \/ ~IsArray(Get(schema, "types"))
    THEN /\ showError
         /\ UNCHANGED <<typeOptions, resultDiv>>
    ELSE /\ typeOptions' = <<Text(<<>>)>> \o [i \in 1..Len(Get(schema, "types").items) |->
                                                OptionValue(Get(schema, "types").items[i])]
         /\ UNCHANGED <<errorDiv, timers, resultDiv>>

handleCommitResult ==
    /\ resultDiv' = TRUE
    /\ errorDiv' = FALSE
    /\ UNCHANGED <<typeOptions, timers>>

\* the listener of window 'message' takes the message the extension posted
ReceiveInWebview ==
    /\ handled.done
    /\ handled.posted # <<>>
    /\ LET posted == Head(handled.posted) IN
        CASE posted.command = "schemaData" -> handleSchemaData(posted.data)
          [] posted.command = "commitResult" -> handleCommitResult
          [] posted.command = "error" -> showError /\ UNCHANGED <<typeOptions, resultDiv>>
          [] OTHER -> UNCHANGED <<typeOptions, errorDiv, resultDiv, timers>>
    /\ handled' = [handled EXCEPT !.posted = Tail(@)]
    /\ lastSubmit' = NoSubmit
    /\ UNCHANGED <<panelLive, provider, disposeCalls, message, copyFeedback, sinceCopy,
                   schemaVars, validateVars, builderVars>>

\* the texts typed into the scope, subject and body fields
TypedScopes == {<<>>, <<"a">>}
TypedSubjects == {<<>>, <<" ">>, <<"a">>}
TypedBodies == {<<>>, <<"B">>}

\* the two checks of the submit listener, with the subject tested untrimmed
submitChecksPassNoTrim(typeValue, subject) ==
    Truthy(typeValue) /\ Len(subject) > 0

\* the two checks of the submit listener: `!typeSelect.value`, `!subjectInput.value.trim()`
submitChecksPass(typeValue, subject) ==
    Truthy(typeValue) /\ Len(trim(subject)) > 0

\* the listener of the form's submit event, with option i of the dropdown selected
SubmitForm ==
    \E i \in 1..Len(typeOptions), scope \in TypedScopes, subject \in TypedSubjects,
       body \in TypedBodies :
        /\ handled.done
        /\ handled.posted = <<>>
        /\ lastSubmit' = [made |-> TRUE, type |-> typeOptions[i].cs, subject |-> subject]
        /\ IF ~submitChecksPass(typeOptions[i], subject)
           THEN /\ showError
                /\ UNCHANGED <<resultDiv, message, handled>>
           ELSE /\ errorDiv' = FALSE
                /\ resultDiv' = FALSE
                /\ message' = MkMessage(Str("submitForm"),
                                        MkForm(typeOptions[i], Text(scope), Text(subject),
                                               Text(body)))
                /\ handled' = NotHandled
                /\ UNCHANGED timers
        /\ UNCHANGED <<panelLive, provider, disposeCalls, typeOptions, copyFeedback, sinceCopy,
                       schemaVars, validateVars, builderVars>>

\* a click on the copy button whose clipboard.writeText resolves: the feedback is
\* shown and a callback that hides it is set
CopySucceeds ==
    /\ resultDiv
    /\ copyFeedback' = TRUE
    /\ timers' = timers \cup {Timer("copyFeedback", FeedbackDelay)}
    /\ sinceCopy' = 0
    /\ UNCHANGED <<typeOptions, lastSubmit, errorDiv, resultDiv, handlerVars,
                   schemaVars, validateVars, builderVars>>

\* a click on the copy button whose clipboard.writeText rejects
CopyFails ==
    /\ resultDiv
    /\ showError
    /\ UNCHANGED <<typeOptions, lastSubmit, resultDiv, copyFeedback, sinceCopy, handlerVars,
                   schemaVars, validateVars, builderVars>>

\* a second passes: the callbacks that are due run
Tick ==
    LET due == {timer \in timers : timer.left = 1} IN
    /\ timers' = {Timer(timer.hides, timer.left - 1) : timer \in timers \ due}
    /\ copyFeedback' = IF \E timer \in due : timer.hides = "copyFeedback" THEN FALSE
                        ELSE copyFeedback
    /\ errorDiv' = IF \E timer \in due : timer.hides = "errorDiv" THEN FALSE ELSE errorDiv
    /\ sinceCopy' = IF sinceCopy < FeedbackDelay THEN sinceCopy + 1 ELSE sinceCopy
    /\ UNCHANGED <<typeOptions, lastSubmit, resultDiv, handlerVars, schemaVars, validateVars, builderVars>>

----------------------------------------------------------------------------
(* Specifications *)

InitValidateIdle ==
    /\ validateArg = Undefined
    /\ validateRet = "none"

\* catalog resolution against a changing file system
Init == InitSchema /\ InitValidateIdle /\ InitBuilder /\ InitHandler /\ InitWebview
Next == LoadSchema \/ WriteFile \/ RemoveFile \/ ProtectFile \/ ChangeWorkspaceFolders
Spec == Init /\ [][Next]_vars

\* validateSchema on every argument of SchemaValues
InitV == InitSchema /\ InitValidate /\ InitBuilder /\ InitHandler /\ InitWebview
NextV == Validate
SpecValidate == InitV /\ [][NextV]_vars

\* buildCommitMessage on every form of at most MaxChars characters
InitB == InitSchema /\ InitValidateIdle /\ InitBuilderInputs /\ InitHandler /\ InitWebview
NextB == Build
SpecBuild == InitB /\ [][NextB]_vars

\* handleMessage on every message of InitHandlerInputs; the messages that load the
\* catalog meet any folders and any files
InitH ==
    /\ InitValidateIdle /\ InitBuilder /\ InitHandlerInputs /\ InitWebview
    /\ IF Get(message, "command") \in {Str("webviewReady"), Str("loadSchema")}
       THEN InitSchemaAny
       ELSE InitSchema
NextH == HandleMessage
SpecHandle == InitH /\ [][NextH]_vars

\* the panel from the script's webviewReady on: the catalog is loaded from the
\* extension's file and the files of one folder, the dropdown filled, forms submitted
InitPanel ==
    /\ workspaceFolders \in {Undefined, Arr(<<"/ws/a">>)}
    /\ fs \in [Paths -> {Absent, Unreadable} \cup {File(text) : text \in FileTexts}]
    /\ fs[WorkspaceSchemaPath("/ws/b")] = Absent
    /\ workspaceFolders = Undefined => fs[WorkspaceSchemaPath("/ws/a")] = Absent
    /\ lastLoad = NotLoaded
    /\ prevRet = Undefined
    /\ panelLive = TRUE
    /\ provider = Created
    /\ disposeCalls = 0
    /\ message = MkMessage(Str("webviewReady"), Undefined)
    /\ handled = NotHandled

InitP == InitPanel /\ InitValidateIdle /\ InitBuilder /\ InitWebview
NextP == HandleMessage \/ ReceiveInWebview \/ SubmitForm
SpecPanel == InitP /\ [][NextP]_vars

\* messages, the closing of the panel and calls of dispose() in any order
InitL == InitSchema /\ InitValidateIdle /\ InitBuilder /\ InitHandler /\ InitWebview
NextL == PostMessage \/ HandleMessage \/ ClosePanel \/ Dispose
SpecLifecycle == InitL /\ [][NextL]_vars

\* the copy button and the clock, with a commit message on display
InitC == InitSchema /\ InitValidateIdle /\ InitBuilder /\ InitHandler /\ InitWebviewResult
NextC == CopySucceeds \/ CopyFails \/ Tick
SpecCopy == InitC /\ [][NextC]_vars

----------------------------------------------------------------------------
(* The catalog data model and the candidates, as the specification words them *)

\* a non-empty string
IsNonEmptyString(v) == v.t = "string" /\ v.s # ""

\* an object with a non-empty string id and a non-empty string label
IsCommitType(v) ==
    /\ v.t = "object"
    /\ {"id", "label"} \subseteq DOMAIN v.props
    /\ IsNonEmptyString(v.props["id"])
    /\ IsNonEmptyString(v.props["label"])

\* an object whose types field is a sequence of commit types
IsCatalog(v) ==
    /\ v.t = "object"
    /\ "types" \in DOMAIN v.props
    /\ v.props["types"].t = "array"
    /\ \A i \in 1..Len(v.props["types"].items) : IsCommitType(v.props["types"].items[i])

\* the ids of a catalog, in order
CatalogIds(v) == [i \in 1..Len(v.props["types"].items) |-> v.props["types"].items[i].props["id"].s]

HasWorkspace == workspaceFolders.t = "array" /\ Len(workspaceFolders.items) > 0
FirstCandidate == fs[WorkspaceSchemaPath(workspaceFolders.items[1])]
SecondCandidate == fs[extensionSchemaPath]

Parses(file) == file.exists /\ file.readable /\ JSONparse(file.text).ok
Unparseable(file) == file.exists /\ file.readable /\ ~JSONparse(file.text).ok
WrongShape(file) == Parses(file) /\ ~IsCatalog(JSONparse(file.text).value)
HoldsCatalog(file) == Parses(file) /\ IsCatalog(JSONparse(file.text).value)
CatalogOf(file) == JSONparse(file.text).value
\* missing or invalid: no file, a file that cannot be read, parsed or has the wrong shape
MissingOrInvalid(file) == ~HoldsCatalog(file)

\* the paths the call touched, by existsSync or readFileSync
Touched(call) == {call.log[i].path : i \in 1..Len(call.log)}

----------------------------------------------------------------------------
(* Claims on SchemaManager.loadSchema, under Spec *)

\* C1: when the first candidate exists but is not parseable as JSON and the second
\* candidate holds a valid catalog, loadSchema returns the second candidate's catalog
\* and not the hardcoded default.
C1_MalformedFirstYieldsSecond ==
    (/\ lastLoad.called
     /\ HasWorkspace
     /\ Unparseable(FirstCandidate)
     /\ HoldsCatalog(SecondCandidate))
        => lastLoad.ret = CatalogOf(SecondCandidate)

\* C2: when the first candidate exists and parses to a valid catalog, loadSchema
\* returns exactly that catalog, the second candidate is never read during the call
\* and the default catalog is never built.
C2_FirstValidReturnedVerbatim ==
    (/\ lastLoad.called
     /\ HasWorkspace
     /\ HoldsCatalog(FirstCandidate))
        => /\ ~lastLoad.threw
           /\ lastLoad.ret = CatalogOf(FirstCandidate)
           /\ extensionSchemaPath \notin Touched(lastLoad)
           /\ ~lastLoad.builtDefault

C2_Witness ==
    /\ lastLoad.called
    /\ HasWorkspace
    /\ FirstCandidate = File(TextFixFeat)
    /\ SecondCandidate = File(TextHotfix)
    /\ CatalogIds(lastLoad.ret) = <<"fix", "feat">>

\* C3: when every candidate is missing or invalid, loadSchema returns the hardcoded
\* default catalog: exactly 7 entries with the ids feat, fix, docs, style, refactor,
\* test, chore in this order.
C3_AllBadYieldsDefault ==
    (/\ lastLoad.called
     /\ HasWorkspace => MissingOrInvalid(FirstCandidate)
     /\ MissingOrInvalid(SecondCandidate))
        => /\ ~lastLoad.threw
           /\ lastLoad.builtDefault
           /\ IsCatalog(lastLoad.ret)
           /\ Len(lastLoad.ret.props["types"].items) = 7
           /\ CatalogIds(lastLoad.ret)
                = <<"feat", "fix", "docs", "style", "refactor", "test", "chore">>

C3_Witness ==
    /\ lastLoad.called
    /\ HasWorkspace
    /\ WrongShape(FirstCandidate)
    /\ Unparseable(SecondCandidate)
    /\ lastLoad.builtDefault

\* C4: loadSchema is total: for every state of the files and with or without an open
\* workspace folder the call returns a catalog and no exception reaches the caller.
C4_LoadSchemaTotal ==
    lastLoad.called => ~lastLoad.threw /\ IsCatalog(lastLoad.ret)

C4_Witness ==
    /\ lastLoad.called
    /\ HasWorkspace
    /\ FirstCandidate = Unreadable
    /\ lastLoad.caught
    /\ IsCatalog(lastLoad.ret)

\* C5: when the first candidate exists and parses as JSON but violates the catalog
\* shape, loadSchema skips it and probes the second candidate, and returns the second
\* candidate's catalog if that one is valid.
C5_WrongShapeFirstProbesSecond ==
    (/\ lastLoad.called
     /\ HasWorkspace
     /\ WrongShape(FirstCandidate))
        => /\ extensionSchemaPath \in Touched(lastLoad)
           /\ HoldsCatalog(SecondCandidate) => lastLoad.ret = CatalogOf(SecondCandidate)

C5_Witness ==
    /\ lastLoad.called
    /\ HasWorkspace
    /\ FirstCandidate = File(TextEmptyId)
    /\ SecondCandidate = File(TextHotfix)
    /\ CatalogIds(lastLoad.ret) = <<"hotfix">>

----------------------------------------------------------------------------
(* Claims on SchemaManager.validateSchema, under SpecValidate *)

\* C6: validateSchema(x) returns true exactly when x is an object whose types field
\* is a sequence of objects with a non-empty string id and a non-empty string label;
\* for every other value it returns false, and it never raises.
C6_ValidateSchemaExact ==
    validateRet # "none"
        => validateRet = (IF IsCatalog(validateArg) THEN "true" ELSE "false")

C6_Witness ==
    /\ validateRet = "false"
    /\ validateArg.t = "object"
    /\ "types" \in DOMAIN validateArg.props
    /\ validateArg.props["types"].t = "array"
    /\ Len(validateArg.props["types"].items) = 2
    /\ IsCommitType(validateArg.props["types"].items[1])
    /\ validateArg.props["types"].items[2] = Null

----------------------------------------------------------------------------
(* Strings, as the specification words them *)

White == {" ", "\t", "\n", "\r"}

\* empty, or white space only
Blank(s) == \A i \in 1..Len(s) : s[i] \in White

\* s without its leading and trailing white space
Trimmed(s) ==
    IF Blank(s) THEN <<>>
    ELSE LET first == CHOOSE i \in 1..Len(s) : s[i] \notin White /\ \A j \in 1..(i - 1) : s[j] \in White
             last == CHOOSE i \in 1..Len(s) : s[i] \notin White /\ \A j \in (i + 1)..Len(s) : s[j] \in White
         IN  SubSeq(s, first, last)

\* s with every upper-case letter replaced by its lower-case letter
Lowered(s) == [i \in 1..Len(s) |-> IF s[i] = "A" THEN "a" ELSE IF s[i] = "B" THEN "b" ELSE s[i]]

Header == formatHeader(formData.type, formData.scope, formData.subject)

----------------------------------------------------------------------------
(* Claims on CommitBuilder.buildCommitMessage, under SpecBuild *)

\* C7: for type and subject non-empty after trimming and scope and body empty after
\* trimming, the result is lowercase(trim(type)), then ": ", then trim(subject).
C7_HeaderWithoutScope ==
    (/\ commitMessage.called
     /\ ~Blank(formData.type)
     /\ ~Blank(formData.subject)
     /\ Blank(formData.scope)
     /\ Blank(formData.body))
        => commitMessage.ret
            = Lowered(Trimmed(formData.type)) \o <<":", " ">> \o Trimmed(formData.subject)

C7_Witness ==
    /\ commitMessage.called
    /\ formData = [type |-> <<" ", "B">>, scope |-> <<" ">>, subject |-> <<"B">>, body |-> <<"\n">>]
    /\ commitMessage.ret = <<"b", ":", " ", "B">>

\* C8: for type, scope and subject non-empty after trimming and body empty after
\* trimming, the result is lowercase(trim(type)) + "(" + trim(scope) + "): " +
\* trim(subject); scope and subject keep their case.
C8_HeaderWithScope ==
    (/\ commitMessage.called
     /\ ~Blank(formData.type)
     /\ ~Blank(formData.scope)
     /\ ~Blank(formData.subject)
     /\ Blank(formData.body))
        => commitMessage.ret
            = Lowered(Trimmed(formData.type)) \o <<"(">> \o Trimmed(formData.scope)
                \o <<")", ":", " ">> \o Trimmed(formData.subject)

C8_Witness ==
    /\ commitMessage.called
    /\ formData = [type |-> <<"B">>, scope |-> <<"B", " ">>, subject |-> <<"a", "B">>, body |-> <<>>]
    /\ commitMessage.ret = <<"b", "(", "B", ")", ":", " ", "a", "B">>

\* the result is the header, one blank line, and the body without its leading and
\* trailing white space, its inner line breaks as in the input
HeaderBlankLineBody ==
    /\ commitMessage.ret = Header \o <<"\n", "\n">> \o Trimmed(formData.body)
    /\ Header[Len(Header)] # "\n"
    /\ commitMessage.ret[Len(Header) + 3] \notin White

\* C9 as stated: for every input whose body is non-empty, the result is the header,
\* exactly one blank line, then the body with its line breaks unchanged.
C9_NonEmptyBodyOriginal ==
    (commitMessage.called /\ Len(formData.body) > 0) => HeaderBlankLineBody

\* C9 amended: for every input whose body is non-empty after trimming, the result is
\* the header, exactly one blank line, then the trimmed body with its inner line
\* breaks unchanged.
C9_NonBlankBody ==
    (commitMessage.called /\ ~Blank(formData.body)) => HeaderBlankLineBody

C9_Witness ==
    /\ commitMessage.called
    /\ formData = [type |-> <<"B">>, scope |-> <<>>, subject |-> <<"a">>, body |-> <<"a", "\n", "a">>]
    /\ commitMessage.ret = <<"b", ":", " ", "a", "\n", "\n", "a", "\n", "a">>

\* C10: when the body is empty or white space only, the result is the header exactly:
\* nothing follows it.
C10_BlankBodyHeaderOnly ==
    (commitMessage.called /\ Blank(formData.body))
        => /\ commitMessage.ret = Header
           /\ Len(commitMessage.ret) = Len(Header)

C10_Witness ==
    /\ commitMessage.called
    /\ formData = [type |-> <<"a">>, scope |-> <<>>, subject |-> <<"B">>, body |-> <<" ", "\n">>]
    /\ commitMessage.ret = <<"a", ":", " ", "B">>

\* C11: buildCommitMessage is total over string inputs: for every four strings it
\* returns a string and raises nothing, a blank type or subject included; with an
\* empty type and an empty scope the result starts with ": " and the trimmed subject.
C11_BuildTotal ==
    commitMessage.called
        => /\ ~commitMessage.threw
           /\ (Blank(formData.type) /\ Blank(formData.scope))
                => /\ Len(commitMessage.ret) >= 2 + Len(Trimmed(formData.subject))
                   /\ SubSeq(commitMessage.ret, 1, 2 + Len(Trimmed(formData.subject)))
                        = <<":", " ">> \o Trimmed(formData.subject)

C11_Witness ==
    /\ commitMessage.called
    /\ formData = [type |-> <<>>, scope |-> <<>>, subject |-> <<" ", "a">>, body |-> <<"B">>]
    /\ commitMessage.ret = <<":", " ", "a", "\n", "\n", "B">>

\* the parts of the result other than the type
ScopePart == IF Blank(formData.scope) THEN <<>> ELSE <<"(">> \o Trimmed(formData.scope) \o <<")">>
BodyPart == IF Blank(formData.body) THEN <<>> ELSE <<"\n", "\n">> \o Trimmed(formData.body)

\* C13: besides trimming, and lower-casing the type, buildCommitMessage transforms
\* nothing: trimmed scope, subject and body appear character for character, for a
\* subject longer than 72 characters and for parentheses, colons and line breaks,
\* without truncation, wrapping or escaping.
C13_NoOtherTransformation ==
    commitMessage.called
        => commitMessage.ret
            = Lowered(Trimmed(formData.type)) \o ScopePart \o <<":", " ">>
                \o Trimmed(formData.subject) \o BodyPart

C13_Witness ==
    /\ commitMessage.called
    /\ formData = [type |-> <<"B">>, scope |-> <<"(", "a", ")">>, subject |-> LongSubject,
                   body |-> <<"a", "\n", "(", ":", "B">>]
    /\ Len(commitMessage.ret) = 1 + 5 + 2 + (SubjectAdvisoryLimit + 1) + 2 + 5

----------------------------------------------------------------------------
(* Claims on MessageHandler.handleMessage, under SpecHandle *)

\* the command of the message, and the data of a submitForm
Command == Get(message, "command")
IsSubmitForm == Command = Str("submitForm")
SubmitData == Get(message, "data")
Member(k) == Get(SubmitData, k)

\* a member that is absent or a string of white space only; a string with more in it
BlankMember(v) == v = Undefined \/ (IsText(v) /\ Blank(v.cs))
NonBlankString(v) == IsText(v) /\ ~Blank(v.cs)

ErrorMessage(text) == Message("error", Str(text))
PostedCommands == {handled.posted[i].command : i \in 1..Len(handled.posted)}

\* C18: buildCommitMessage is never called with a type or a subject that is empty
\* after trimming; a submitForm whose data is an object with a blank type is answered
\* by the error "Type commit harus diisi", one with a non-blank type and a blank
\* subject by "Subject commit harus diisi", and neither by a commitResult.
C18_BlankTypeOrSubjectRejected ==
    handled.done
        => /\ \A i \in 1..Len(handled.builds) :
                /\ NonBlankString(Get(handled.builds[i], "type"))
                /\ NonBlankString(Get(handled.builds[i], "subject"))
           /\ (IsSubmitForm /\ SubmitData.t = "object" /\ BlankMember(Member("type")))
                => (/\ handled.posted = <<ErrorMessage("Type commit harus diisi")>>
                    /\ handled.builds = <<>>)
           /\ (IsSubmitForm /\ SubmitData.t = "object"
                    /\ NonBlankString(Member("type")) /\ BlankMember(Member("subject")))
                => (/\ handled.posted = <<ErrorMessage("Subject commit harus diisi")>>
                    /\ handled.builds = <<>>)

C18_Witness ==
    /\ handled.done
    /\ message = MkMessage(Str("submitForm"),
                           MkForm(Text(<<" ">>), Text(<<>>), Text(<<" ">>), Text(<<"a">>)))
    /\ handled.posted = <<ErrorMessage("Type commit harus diisi")>>

\* the four members of the data, when all are strings
FourStrings == \A k \in {"type", "scope", "subject", "body"} : IsText(Member(k))
Fields == [k \in {"type", "scope", "subject", "body"} |-> Member(k).cs]

\* C19: a submitForm whose data has four string fields, type and subject not blank,
\* is answered by exactly one message, a commitResult whose data is
\* buildCommitMessage of those fields, and by no error.
C19_SubmitYieldsCommitResult ==
    (handled.done /\ IsSubmitForm /\ SubmitData.t = "object" /\ FourStrings)
        => (~Blank(Fields.type) /\ ~Blank(Fields.subject)
                => handled.posted = <<Message("commitResult", Text(buildCommitMessage(Fields)))>>)

C19_Witness ==
    /\ handled.done
    /\ message = MkMessage(Str("submitForm"),
                           MkForm(Text(<<"B">>), Text(<<>>), Text(<<"a">>), Text(<<" ", "a">>)))
    /\ handled.posted = <<Message("commitResult", Text(<<"b", ":", " ", "a", "\n", "\n", "a">>))>>

\* a command that is a non-empty string and none of the three the handler knows
UnknownCommand ==
    /\ Command.t = "string"
    /\ Command.s # ""
    /\ Command.s \notin {"webviewReady", "loadSchema", "submitForm"}

\* C20: a message with an unknown command has nothing posted to the webview and
\* causes no call of the schema manager or of the commit builder; it is logged.
C20_UnknownCommandOnlyLogged ==
    handled.done /\ UnknownCommand
        => /\ handled.posted = <<>>
           /\ handled.loads = <<>>
           /\ handled.builds = <<>>
           /\ handled.lines = <<"Received message: " \o Command.s,
                                "Warning: Unknown command: " \o Command.s>>

C20_Witness ==
    /\ handled.done
    /\ message = MkMessage(Str("ping"), Undefined)
    /\ handled.lines = <<"Received message: ping", "Warning: Unknown command: ping">>

\* C16: a webviewReady message and a loadSchema message, handled while the panel is
\* live, are each answered by exactly one message, a schemaData whose data is the
\* catalog that loadSchema returns for the present folders and files, and by no error.
C16_ReadyAndLoadYieldSchemaData ==
    (handled.done /\ panelLive /\ Command \in {Str("webviewReady"), Str("loadSchema")})
        => /\ handled.posted = <<Message("schemaData", loadSchema(workspaceFolders, fs).ret)>>
           /\ IsCatalog(handled.posted[1].data)
           /\ Len(handled.loads) = 1
           /\ handled.loads[1].ret = handled.posted[1].data

C16_Witness ==
    /\ handled.done /\ panelLive
    /\ Command = Str("webviewReady")
    /\ HasWorkspace /\ FirstCandidate = File(TextHotfix)
    /\ handled.posted = <<Message("schemaData", CatalogOf(File(TextHotfix)))>>

----------------------------------------------------------------------------
(* Claims on repeated calls of loadSchema, under Spec *)

----------------------------------------------------------------------------
(* Claims on the panel, under SpecPanel *)

\* a form was submitted from the dropdown and the handler's answer is on its way
Submitted == handled.done /\ IsSubmitForm /\ handled.posted # <<>>
SubmittedId == Member("type").cs
Answer == Head(handled.posted)

\* the ids of the catalog that loadSchema returns for the present files
LoadedIds ==
    LET ids == CatalogIds(loadSchema(workspaceFolders, fs).ret)
    IN  {CharsOf(ids[i]) : i \in 1..Len(ids)}

\* the text of a header before its first "(" or ":"
TypeToken(header) ==
    LET stops == {i \in 1..Len(header) : header[i] \in {"(", ":"}}
    IN  IF stops = {} THEN header
        ELSE SubSeq(header, 1, (CHOOSE i \in stops : \A j \in stops : i <= j) - 1)

\* C12, as claimed: submitting the id of an entry of the loaded catalog as the type
\* yields a header whose type token is that id character for character.
C12_IdVerbatimOriginal ==
    Submitted
        => /\ SubmittedId \in LoadedIds
           /\ Answer.command = "commitResult"
           /\ TypeToken(Answer.data.cs) = SubmittedId

\* C12, amended: submitting the id of an entry of the loaded catalog as the type
\* yields a header whose type token is that id trimmed and lower-cased, hence the id
\* itself exactly when it has no upper-case letter and no white space around it; an
\* id of white space only yields the error "Type commit harus diisi" and no header.
C12_IdTrimmedLowered ==
    Submitted
        => /\ SubmittedId \in LoadedIds
           /\ IF Blank(SubmittedId)
              THEN handled.posted = <<ErrorMessage("Type commit harus diisi")>>
              ELSE /\ Len(handled.posted) = 1
                   /\ Answer.command = "commitResult"
                   /\ TypeToken(Answer.data.cs) = Lowered(Trimmed(SubmittedId))
                   /\ TypeToken(Answer.data.cs) = SubmittedId
                        <=> SubmittedId = Lowered(Trimmed(SubmittedId))

C12_Witness ==
    /\ Submitted
    /\ SubmittedId = <<"B">>
    /\ LoadedIds = {<<"B">>, <<" ", "a">>, <<" ">>}
    /\ Answer = Message("commitResult", Text(<<"b", "(", "a", ")", ":", " ", "a">>))

\* the submit listener ran and a check failed; it ran and both checks passed
SubmitRefused ==
    lastSubmit.made /\ (Len(lastSubmit.type) = 0 \/ Blank(lastSubmit.subject))
SubmitAccepted ==
    lastSubmit.made /\ Len(lastSubmit.type) > 0 /\ ~Blank(lastSubmit.subject)

\* C24: the webview posts a submitForm only with a selected type value that is not
\* empty and a subject that is not blank; a submit that fails either check shows an
\* error and posts nothing to the extension.
C24_WebviewChecksBeforePosting ==
    /\ IsSubmitForm
        => Len(Member("type").cs) > 0 /\ ~Blank(Member("subject").cs)
    /\ SubmitRefused
        => /\ errorDiv
           /\ Timer("errorDiv", ErrorDelay) \in timers
           /\ handled.done
    /\ SubmitAccepted
        => /\ ~handled.done
           /\ IsSubmitForm
           /\ Member("type").cs = lastSubmit.type
           /\ Member("subject").cs = lastSubmit.subject

C24_Witness ==
    /\ SubmitRefused
    /\ lastSubmit.type = <<"h", "o", "t", "f", "i", "x">>
    /\ lastSubmit.subject = <<" ">>
    /\ errorDiv
    /\ Command = Str("webviewReady")

\* C27, as claimed: every commit type of a catalog that loadSchema returns can be
\* used: submitting its id as the type, with a subject that is not blank, passes the
\* check of the webview and the check of the extension and yields a commitResult.
C27_EveryOfferedTypeUsable ==
    Submitted
        => /\ SubmittedId \in LoadedIds
           /\ ~Blank(Member("subject").cs)
           /\ handled.posted[1].command = "commitResult"

----------------------------------------------------------------------------
(* Claims on the copy button, under SpecCopy *)

\* C17, as claimed: after every successful click on the copy button the feedback is
\* on display for three seconds counted from that click, also when the button was
\* clicked while the feedback of an earlier click was showing.
C17_FeedbackThreeSecondsFromClick ==
    sinceCopy < FeedbackDelay => copyFeedback

----------------------------------------------------------------------------
(* Further claims on MessageHandler.handleMessage, under SpecHandle *)

\* C26: a submitForm handled while the panel is live, whatever its data (absent, no
\* object, an object lacking scope or body, members that are no strings), is
\* answered by exactly one message, which is a commitResult or an error.
C26_SubmitAnsweredOnce ==
    (handled.done /\ panelLive /\ IsSubmitForm)
        => /\ Len(handled.posted) = 1
           /\ handled.posted[1].command \in {"commitResult", "error"}

C26_Witness ==
    /\ handled.done /\ panelLive
    /\ message = MkMessage(Str("submitForm"),
                           MkForm(Text(<<"B">>), Undefined, Text(<<"B">>), Num("5")))
    /\ handled.posted = <<ErrorMessage("Gagal membuat commit message")>>

\* the commitResults among the posted messages
Results == {i \in 1..Len(handled.posted) : handled.posted[i].command = "commitResult"}

\* the body of the data as the builder uses it, and the header of a result
UsedBody == IF IsText(Member("body")) THEN Trimmed(Member("body").cs) ELSE <<>>
HeaderOf(result) ==
    IF UsedBody = <<>> THEN result ELSE SubSeq(result, 1, Len(result) - Len(UsedBody) - 2)
EndsWith(s, tail) ==
    Len(s) >= Len(tail) /\ SubSeq(s, Len(s) - Len(tail) + 1, Len(s)) = tail

\* C28: every commitResult the extension posts has no white space at its start or
\* end, begins with the non-empty lower-cased type followed at once by "(" or ":",
\* and its header ends with ": " and the non-empty subject.
C28_CommitResultWellFormed ==
    handled.done
        => \A i \in Results :
            LET result == handled.posted[i].data.cs
                type == Lowered(Trimmed(Member("type").cs))
                subject == Trimmed(Member("subject").cs)
            IN  /\ Len(result) > 0
                /\ result[1] \notin White /\ result[Len(result)] \notin White
                /\ Len(type) > 0
                /\ Len(result) > Len(type)
                /\ SubSeq(result, 1, Len(type)) = type
                /\ result[Len(type) + 1] \in {"(", ":"}
                /\ Len(subject) > 0
                /\ EndsWith(HeaderOf(result), <<":", " ">> \o subject)

C28_Witness ==
    /\ handled.done
    /\ message = MkMessage(Str("submitForm"),
                           MkForm(Text(<<"B">>), Text(<<>>), Text(<<"a">>), Text(<<"B", " ">>)))
    /\ handled.posted = <<Message("commitResult", Text(<<"b", ":", " ", "a", "\n", "\n", "B">>))>>

----------------------------------------------------------------------------
(* Further claims on SchemaManager.loadSchema, under Spec *)

WorkspacePaths == {WorkspaceSchemaPath(f) : f \in Folders}

\* C21: with no workspace folder open, loadSchema accesses no file of a workspace
\* and returns the bundled catalog, or the default one when the bundled file is
\* missing or invalid; with several folders open it probes the first folder's
\* .vscode/commit-types.json and no other folder's.
C21_NoFolderSkipsFirstFolderOnly ==
    lastLoad.called
        => /\ ~HasWorkspace
                => /\ Touched(lastLoad) \cap WorkspacePaths = {}
                   /\ extensionSchemaPath \in Touched(lastLoad)
                   /\ lastLoad.ret = IF HoldsCatalog(SecondCandidate)
                                      THEN CatalogOf(SecondCandidate)
                                      ELSE getDefaultSchema
           /\ HasWorkspace
                => /\ WorkspaceSchemaPath(workspaceFolders.items[1]) \in Touched(lastLoad)
                   /\ Touched(lastLoad) \cap WorkspacePaths
                        = {WorkspaceSchemaPath(workspaceFolders.items[1])}

C21_Witness ==
    /\ lastLoad.called
    /\ workspaceFolders = Arr(<<"/ws/a", "/ws/b">>)
    /\ fs[WorkspaceSchemaPath("/ws/a")] = Absent
    /\ fs[WorkspaceSchemaPath("/ws/b")] = File(TextHotfix)
    /\ SecondCandidate = File(TextFixFeat)
    /\ Touched(lastLoad) = {WorkspaceSchemaPath("/ws/a"), extensionSchemaPath}
    /\ CatalogIds(lastLoad.ret) = <<"fix", "feat">>

\* C22: every catalog that loadSchema returns, from a file or the default one,
\* satisfies the catalog data model: types is a sequence whose entries each have a
\* non-empty string id and a non-empty string label; validateSchema holds of it.
C22_ReturnedCatalogValid ==
    lastLoad.called
        => /\ IsCatalog(lastLoad.ret)
           /\ validateSchema(lastLoad.ret) = "true"

C22_Witness ==
    /\ lastLoad.called
    /\ HasWorkspace
    /\ FirstCandidate = File(TextEmptyId)
    /\ SecondCandidate = File(TextOddIds)
    /\ CatalogIds(lastLoad.ret) = <<"B", " a", " ">>

\* C23, as claimed: every catalog that loadSchema returns holds at least one commit
\* type, whatever the two candidate files hold; a candidate that offers no type is
\* treated as invalid.
C23_ReturnedCatalogNotEmpty ==
    lastLoad.called => Len(Get(lastLoad.ret, "types").items) >= 1

----------------------------------------------------------------------------
(* Claims on WebviewProvider, under SpecLifecycle *)

\* C25: once the provider is disposed, by the closing of its panel or by dispose(),
\* its panel and messageHandler fields are cleared; a message that reaches the
\* listener afterwards is dropped, not handled, and nothing more is posted to the
\* webview; a further dispose(), like the nested one that the panel's dispose event
\* makes, returns and changes nothing.
C25_DisposedProviderInert ==
    /\ [](~panelLive => ~provider.panel /\ ~provider.messageHandler /\ disposeCalls \in 1..2)
    /\ [][~panelLive
            => /\ panelLive' = panelLive /\ provider' = provider
               /\ handled'.done => handled' = handled
               /\ handled'.posted \in {handled.posted, <<>>}]_vars

C25_Witness ==
    /\ ~panelLive
    /\ disposeCalls = 2
    /\ message = MkMessage(Str("webviewReady"), Undefined)
    /\ handled = Dropped

====
